---- MODULE Spec2Model ----
(***************************************************************************)
(* Model of ls2yolo.py: Label Studio video annotations (JSON-MIN) to YOLO  *)
(* label files.  The run is sequential: label extraction, then for every   *)
(* video main() (availability mask, keyframe normalisation and             *)
(* interpolation, label files, frame extraction), then classes.txt.        *)
(***************************************************************************)
EXTENDS Integers, Sequences, FiniteSets, TLC

(***************************************************************************)
(* decimal.Decimal, as far as the script uses it.  A Decimal is a sign, a  *)
(* coefficient (digits, most significant first, no leading zero except for *)
(* the number zero itself) and an exponent; every arithmetic result is     *)
(* rounded half-even to Prec significant digits (the default context).     *)
(* A zero is modelled without Python's signed zero: the boxes of the       *)
(* inputs are positive, and no operation of the script turns them into -0. *)
(***************************************************************************)
Prec == 28

Max2(a, b) == IF a >= b THEN a ELSE b
Min2(a, b) == IF a <= b THEN a ELSE b

IsZeroN(s) == \A i \in 1..Len(s) : s[i] = 0

\* without leading zeros (<<0>> for zero)
Strip(s) ==
    IF IsZeroN(s) THEN <<0>>
    ELSE LET first == CHOOSE i \in 1..Len(s) : s[i] # 0 /\ \A j \in 1..(i - 1) : s[j] = 0
         IN  SubSeq(s, first, Len(s))

Pad(s, n) == [i \in 1..n |-> IF i <= n - Len(s) THEN 0 ELSE s[i - (n - Len(s))]]

Zeros(n) == [i \in 1..n |-> 0]

Reverse(s) == [i \in 1..Len(s) |-> s[Len(s) + 1 - i]]

RECURSIVE NatDigits(_)
NatDigits(n) == IF n < 10 THEN <<n>> ELSE Append(NatDigits(n \div 10), n % 10)

(***************************************************************************)
(* The coefficient arithmetic works on limbs of four digits, least         *)
(* significant limb first, so that every intermediate value fits a machine *)
(* integer.                                                                *)
(***************************************************************************)
Pow10(j) == CASE j = 0 -> 1 [] j = 1 -> 10 [] j = 2 -> 100 [] OTHER -> 1000

\* the digit of s at decimal place p (0 is the last digit)
DigitR(s, p) == IF p < Len(s) THEN s[Len(s) - p] ELSE 0

NumLimbs(s) == (Len(s) + 3) \div 4

Limbs(s, m) ==
    [i \in 1..m |-> DigitR(s, 4 * i - 4) + 10 * DigitR(s, 4 * i - 3)
                    + 100 * DigitR(s, 4 * i - 2) + 1000 * DigitR(s, 4 * i - 1)]

Digits(L) ==
    Strip([k \in 1..(4 * Len(L)) |->
              LET p == 4 * Len(L) - k
              IN  (L[(p \div 4) + 1] \div Pow10(p % 4)) % 10])

PadL(L, m) == [i \in 1..m |-> IF i <= Len(L) THEN L[i] ELSE 0]

RECURSIVE AddCarry(_, _, _, _)
AddCarry(A, B, i, c) ==
    IF i > Len(A) THEN (IF c = 0 THEN <<>> ELSE <<c>>)
    ELSE LET s == A[i] + B[i] + c
         IN  <<s % 10000>> \o AddCarry(A, B, i + 1, s \div 10000)

AddL(A, B) ==
    LET m == Max2(Len(A), Len(B))
    IN  AddCarry(PadL(A, m), PadL(B, m), 1, 0)

AddN(a, b) ==
    LET m == Max2(NumLimbs(a), NumLimbs(b))
    IN  Digits(AddCarry(Limbs(a, m), Limbs(b, m), 1, 0))

RECURSIVE SubBorrow(_, _, _, _)
SubBorrow(A, B, i, c) ==
    IF i > Len(A) THEN <<>>
    ELSE LET s == A[i] - B[i] - c
         IN  <<IF s < 0 THEN s + 10000 ELSE s>>
             \o SubBorrow(A, B, i + 1, IF s < 0 THEN 1 ELSE 0)

\* a - b for naturals a >= b
SubN(a, b) ==
    LET m == Max2(NumLimbs(a), NumLimbs(b))
    IN  Digits(SubBorrow(Limbs(a, m), Limbs(b, m), 1, 0))

LessN(a, b) ==
    LET n == Max2(Len(a), Len(b))
        x == Pad(a, n)
        y == Pad(b, n)
    IN  \E i \in 1..n : x[i] < y[i] /\ \A j \in 1..(i - 1) : x[j] = y[j]

\* the limbs A times one limb d
RECURSIVE MulCarry(_, _, _, _)
MulCarry(A, d, i, c) ==
    IF i > Len(A) THEN (IF c = 0 THEN <<>> ELSE <<c>>)
    ELSE LET s == A[i] * d + c
         IN  <<s % 10000>> \o MulCarry(A, d, i + 1, s \div 10000)

\* A * (B[i] + 10000 * B[i+1] + ...)
RECURSIVE MulAcc(_, _, _)
MulAcc(A, B, i) ==
    IF i > Len(B) THEN <<>>
    ELSE AddL(MulCarry(A, B[i], 1, 0), <<0>> \o MulAcc(A, B, i + 1))

\* the partial products run over the limbs of the shorter factor
MulN(a, b) ==
    IF Len(a) >= Len(b)
    THEN Digits(MulAcc(Limbs(a, NumLimbs(a)), Limbs(b, NumLimbs(b)), 1))
    ELSE Digits(MulAcc(Limbs(b, NumLimbs(b)), Limbs(a, NumLimbs(a)), 1))

Dec(neg, coef, exp) == [neg |-> neg, coef |-> coef, exp |-> exp]

\* Decimal(n) for a Python int n
DecInt(n) == IF n < 0 THEN Dec(TRUE, NatDigits(0 - n), 0) ELSE Dec(FALSE, NatDigits(n), 0)

\* the context's rounding: ROUND_HALF_EVEN to Prec digits; sticky says that
\* nonzero digits beyond coef were already discarded
DecRound(neg, coef, exp, sticky) ==
    IF Len(coef) <= Prec THEN Dec(neg /\ ~IsZeroN(coef), coef, exp)
    ELSE LET k    == Len(coef) - Prec
             kept == SubSeq(coef, 1, Prec)
             rest == SubSeq(coef, Prec + 1, Len(coef))
             more == sticky \/ ~IsZeroN(Tail(rest))
             up   == \/ rest[1] > 5
                     \/ rest[1] = 5 /\ more
                     \/ rest[1] = 5 /\ ~more /\ kept[Prec] % 2 = 1
             r    == IF up THEN AddN(kept, <<1>>) ELSE kept
         IN  IF Len(r) > Prec
             THEN Dec(neg, SubSeq(r, 1, Prec), exp + k + 1)
             ELSE Dec(neg, r, exp + k)

\* exact product and sum (no rounding): the mathematical values
MulX(a, b) ==
    LET c == MulN(a.coef, b.coef)
    IN  Dec((a.neg # b.neg) /\ ~IsZeroN(c), c, a.exp + b.exp)

AddX(a, b) ==
    LET e  == Min2(a.exp, b.exp)
        ca == Strip(a.coef \o Zeros(a.exp - e))
        cb == Strip(b.coef \o Zeros(b.exp - e))
    IN  IF a.neg = b.neg THEN Dec(a.neg /\ ~IsZeroN(AddN(ca, cb)), AddN(ca, cb), e)
        ELSE IF LessN(ca, cb) THEN Dec(b.neg, SubN(cb, ca), e)
        ELSE LET c == SubN(ca, cb) IN Dec(a.neg /\ ~IsZeroN(c), c, e)

DecNeg(a) == Dec(~a.neg /\ ~IsZeroN(a.coef), a.coef, a.exp)

\* Decimal.__mul__, __add__, __sub__ under the context
DecMul(a, b) == LET p == MulX(a, b) IN DecRound(p.neg, p.coef, p.exp, FALSE)
DecAdd(a, b) == LET s == AddX(a, b) IN DecRound(s.neg, s.coef, s.exp, FALSE)
DecSub(a, b) == DecAdd(a, DecNeg(b))

\* long division of the limbs A by the int d, 0 < d < 200000, most significant
\* limb first: quotient limbs so far q, remainder r, next limb i, n the limbs
\* of q from its first nonzero one; past the dividend, zero limbs are brought
\* down (the exponent falls by four) until the division is exact or more than
\* Prec significant digits stand
RECURSIVE DivStep(_, _, _, _, _, _, _)
DivStep(A, d, i, q, r, n, e) ==
    IF i >= 1
    THEN LET cur == r * 10000 + A[i]
         IN  DivStep(A, d, i - 1, Append(q, cur \div d), cur % d,
                     IF n > 0 \/ cur \div d > 0 THEN n + 1 ELSE 0, e)
    ELSE IF r = 0 \/ 4 * (n - 1) + 1 > Prec
         THEN [q |-> q, r |-> r, e |-> e]
         ELSE LET cur == r * 10000
              IN  DivStep(A, d, i, Append(q, cur \div d), cur % d,
                          IF n > 0 \/ cur \div d > 0 THEN n + 1 ELSE 0, e - 4)

TrailingZeros(s) ==
    IF IsZeroN(s) THEN 0
    ELSE Len(s) - (CHOOSE i \in 1..Len(s) : s[i] # 0 /\ \A j \in (i + 1)..Len(s) : s[j] = 0)

\* Decimal.__truediv__ by Decimal(d), d a positive int: an exact quotient keeps
\* the exponent nearest to the dividend's
DecDivInt(a, d) ==
    LET res  == DivStep(Limbs(a.coef, NumLimbs(a.coef)), d, NumLimbs(a.coef),
                        <<>>, 0, 0, a.exp)
        digs == Digits(Reverse(res.q))
        z    == IF res.r = 0 THEN Min2(TrailingZeros(digs), a.exp - res.e) ELSE 0
    IN  DecRound(a.neg, SubSeq(digs, 1, Len(digs) - z), res.e + z, res.r # 0)

(***************************************************************************)
(* The input: json.load(f, parse_float=Decimal).  A video is              *)
(* [video |-> whether os.path.isfile finds the resolved path,              *)
(*  box |-> the subjects]; a subject is [labels, framesCount (<<>> when    *)
(* the key is absent, <<n>> otherwise), sequence]; a keyframe is           *)
(* [frame, enabled, x, y, width, height] with the box in percent.          *)
(* frame_times (lines 60, 104, 110) is written and sorted but never read,  *)
(* and is left out.                                                        *)
(***************************************************************************)
VARIABLES video_labels, pc, err, labels, frame_count, vi, offset,
          availableFrames, files_dict, si, ki, prev_seq, lines, todo,
          labelFiles, imageFiles, decodeFailed, classes

vars == <<video_labels, pc, err, labels, frame_count, vi, offset,
          availableFrames, files_dict, si, ki, prev_seq, lines, todo,
          labelFiles, imageFiles, decodeFailed, classes>>

\* the label strings of the inputs, listed in Python's string order
LabelNames == <<"ball", "refA", "teamB">>

Range(s) == {s[i] : i \in 1..Len(s)}

SetMax(S) == CHOOSE m \in S : \A x \in S : x <= m
SetMin(S) == CHOOSE m \in S : \A x \in S : m <= x

Subjects(video) == Range(video.box)

\* set.add(*subject['labels']) takes exactly one argument (TypeError otherwise)
AddAcceptsAny(subject) == Len(subject.labels) >= 1
AddAccepts(subject) == Len(subject.labels) = 1

\* sorted(labels) of the set built over every subject of every video
SortedLabels(vl) ==
    LET seen == UNION {Range(s.labels) : s \in UNION {Subjects(v) : v \in Range(vl)}}
    IN  SelectSeq(LabelNames, LAMBDA l : l \in seen)

\* labels_dict = {k: i for i, k in enumerate(labels)}
LabelIndex(ls, name) == (CHOOSE i \in 1..Len(ls) : ls[i] = name) - 1

FirstFrame(subject) == subject.sequence[1].frame
LastFrame(subject) == subject.sequence[Len(subject.sequence)].frame

\* max_frames: the largest declared framesCount, 0 when none is declared
MaxFrames(video) ==
    SetMax({0} \cup {s.framesCount[1] : s \in {x \in Subjects(video) : Len(x.framesCount) = 1}})

\* the indices availableFrames[i] = True is executed for
Marked(video) ==
    UNION {FirstFrame(s)..(LastFrame(s) - 1) : s \in Subjects(video)}

MaskClosed(video) ==
    [i \in 0..MaxFrames(video) |->
        i \in UNION {FirstFrame(s)..LastFrame(s) : s \in Subjects(video)}]

\* availableFrames = [False] * (max_frames+1), then the marking loop
Mask(video) == [i \in 0..MaxFrames(video) |-> i \in Marked(video)]

\* the keyframe after lines 80-85: centre form, fractions of the frame
Normalized(seq) ==
    LET cx == DecAdd(seq.x, DecDivInt(seq.width, 2))
        cy == DecAdd(seq.y, DecDivInt(seq.height, 2))
    IN  [frame |-> seq.frame, enabled |-> seq.enabled,
         x |-> DecDivInt(cx, 100), y |-> DecDivInt(cy, 100),
         width |-> DecDivInt(seq.width, 100), height |-> DecDivInt(seq.height, 100)]

\* b0 + t*(b1-b0) with t = Decimal(frame-a0)/Decimal(a1-a0)
Interpolate(b0, b1, n, d) ==
    DecAdd(b0, DecMul(DecDivInt(DecInt(n), d), DecSub(b1, b0)))

\* range(a0+1, a1)
IntermediateFramesFromStart(a0, a1) == a0..(a1 - 1)
IntermediateFrames(a0, a1) == (a0 + 1)..(a1 - 1)

\* the dict frame -> [label, x, y, width, height]; a value stands for the
\* string str() gives, which determines the Decimal
linear_interpolation(p, c, label) ==
    LET a0 == p.frame
        a1 == c.frame
    IN  [frame \in IntermediateFrames(a0, a1) |->
            <<label,
              Interpolate(p.x, c.x, frame - a0, a1 - a0),
              Interpolate(p.y, c.y, frame - a0, a1 - a0),
              Interpolate(p.width, c.width, frame - a0, a1 - a0),
              Interpolate(p.height, c.height, frame - a0, a1 - a0)>>]

\* line 88: prev_seq is <<>> for None
InterpolatesAlways(prev, seq) ==
    Len(prev) = 1 /\ (seq.frame - prev[1].frame > 1)
InterpolatesIfCurrentEnabled(prev, seq) ==
    Len(prev) = 1 /\ prev[1].enabled /\ seq.enabled /\ (seq.frame - prev[1].frame > 1)
Interpolates(prev, seq) ==
    Len(prev) = 1 /\ prev[1].enabled /\ (seq.frame - prev[1].frame > 1)

\* lines 88-94: the lines one keyframe contributes (seq already normalised)
StepLines(prev, seq, label) ==
    LET interp == IF Interpolates(prev, seq)
                  THEN linear_interpolation(prev[1], seq, label)
                  ELSE <<>>
        cur    == <<label, seq.x, seq.y, seq.width, seq.height>>
    IN  [f \in DOMAIN interp \cup {seq.frame} |->
            IF f = seq.frame THEN cur ELSE interp[f]]

\* lines 97-101
Merge(fd, ls) ==
    [f \in DOMAIN fd \cup DOMAIN ls |->
        IF f \in DOMAIN ls
        THEN (IF f \in DOMAIN fd THEN Append(fd[f], ls[f]) ELSE <<ls[f]>>)
        ELSE fd[f]]

\* f'{n:0{padding}d}': the digits of n, zero-filled to at least padding
FormatPadded(n, padding) ==
    LET ds == NatDigits(n)
    IN  IF Len(ds) >= padding THEN ds ELSE Zeros(padding - Len(ds)) \o ds

\* padding = len(str(max_frame)), max_frame = max(files_dict.keys())
Padding(fd) == Len(NatDigits(SetMax(DOMAIN fd)))

FileEntry(v, off, frame, padding) ==
    [video |-> v, frame |-> frame, index |-> off + frame,
     name |-> FormatPadded(off + frame, padding)]

\* the frames the label loop reaches before availableFrames[frame] raises
\* IndexError (all of them when it does not)
Reached(fd, mask) ==
    {f \in DOMAIN fd : \A g \in DOMAIN fd : g <= f => g \in DOMAIN mask}

\* what main returns: offset+len(tqdm(files_dict))
Returned(off, fd) == off + Cardinality(DOMAIN fd)

\* frame_count += main(...)
Accumulate(count, returned) == count + returned

Video == video_labels[vi]
Subject == Video.box[si]

NoLines == <<>>

\* the locals of main() before its first statement
EnterMain(v, off) ==
    /\ vi' = v
    /\ offset' = off
    /\ availableFrames' = <<>>
    /\ files_dict' = <<>>
    /\ si' = 1
    /\ ki' = 1
    /\ prev_seq' = <<>>
    /\ lines' = NoLines
    /\ todo' = {}

Raise(name) ==
    /\ pc' = "error"
    /\ err' = name

\* lines 174-180, and the call of main for the first video
ExtractLabels ==
    /\ pc = "labels"
    /\ IF \A v \in Range(video_labels) : \A s \in Subjects(v) : AddAccepts(s)
       THEN /\ labels' = SortedLabels(video_labels)
            /\ pc' = IF Len(video_labels) = 0 THEN "classes" ELSE "mask"
            /\ EnterMain(1, frame_count)
            /\ UNCHANGED err
       ELSE /\ Raise("TypeError@178")
            /\ UNCHANGED <<labels, vi, offset, availableFrames, files_dict, si, ki,
                           prev_seq, lines, todo>>
    /\ UNCHANGED <<video_labels, frame_count, labelFiles, imageFiles,
                   decodeFailed, classes>>

\* lines 41-56: availableFrames[i] = True raises IndexError past the list
BuildMask ==
    /\ pc = "mask"
    /\ IF Marked(Video) \subseteq 0..MaxFrames(Video)
       THEN /\ availableFrames' = Mask(Video)
            /\ pc' = IF Len(Video.box) = 0 THEN "write" ELSE "aggregate"
            /\ UNCHANGED err
       ELSE /\ Raise("IndexError@56")
            /\ UNCHANGED availableFrames
    /\ UNCHANGED <<video_labels, labels, frame_count, vi, offset, files_dict, si, ki,
                   prev_seq, lines, todo, labelFiles, imageFiles, decodeFailed, classes>>

\* lines 63-106, one keyframe of the current subject: the label check when it
\* is the subject's first, normalisation, interpolation, the merge
AggregateStep ==
    /\ pc = "aggregate"
    /\ IF Len(Subject.labels) # 1
       THEN /\ Raise("ValueError@71")
            /\ UNCHANGED <<files_dict, si, ki, prev_seq, lines>>
       ELSE LET label == LabelIndex(labels, Subject.labels[1])
                seq   == Normalized(Subject.sequence[ki])
                ls    == StepLines(prev_seq, seq, label)
                last  == ki = Len(Subject.sequence)
            IN  /\ lines' = ls
                /\ files_dict' = Merge(files_dict, ls)
                /\ prev_seq' = IF last THEN <<>> ELSE <<seq>>
                /\ ki' = IF last THEN 1 ELSE ki + 1
                /\ si' = IF last THEN si + 1 ELSE si
                /\ pc' = IF last /\ si = Len(Video.box) THEN "write" ELSE "aggregate"
                /\ UNCHANGED err
    /\ UNCHANGED <<video_labels, labels, frame_count, vi, offset, availableFrames,
                   todo, labelFiles, imageFiles, decodeFailed, classes>>

\* lines 108-126: max() of no frames raises ValueError; the label loop writes
\* in ascending frame order until availableFrames[frame] raises IndexError
WriteLabels ==
    /\ pc = "write"
    /\ IF DOMAIN files_dict = {}
       THEN /\ Raise("ValueError@118")
            /\ UNCHANGED <<labelFiles, todo>>
       ELSE LET written == {f \in Reached(files_dict, availableFrames) :
                               availableFrames[f]}
            IN  /\ labelFiles' = labelFiles \cup
                      {FileEntry(vi, offset, f, Padding(files_dict)) : f \in written}
                /\ IF DOMAIN files_dict \subseteq DOMAIN availableFrames
                   THEN /\ pc' = "extract"
                        /\ todo' = DOMAIN files_dict
                        /\ UNCHANGED err
                   ELSE /\ Raise("IndexError@123")
                        /\ UNCHANGED todo
    /\ UNCHANGED <<video_labels, labels, frame_count, vi, offset, availableFrames,
                   files_dict, si, ki, prev_seq, lines, imageFiles, decodeFailed,
                   classes>>

\* the frames of todo the loop of line 132 still decodes
Pending == {f \in todo : availableFrames[f]}

ExtractFrameNoBreak(success) ==
    /\ pc = "extract"
    /\ Video.video
    /\ Pending # {}
    /\ LET frame == SetMin(Pending)
       IN  /\ imageFiles' = IF success
                            THEN imageFiles \cup
                                 {FileEntry(vi, offset, frame, Padding(files_dict))}
                            ELSE imageFiles
           /\ decodeFailed' = IF success THEN decodeFailed
                              ELSE decodeFailed \cup {<<vi, frame>>}
           /\ todo' = {f \in todo : f > frame}
           /\ UNCHANGED pc
    /\ UNCHANGED <<video_labels, err, labels, frame_count, vi, offset, availableFrames,
                   files_dict, si, ki, prev_seq, lines, labelFiles, classes>>

\* lines 129-140: the loop up to and including the next available frame;
\* success is what vidcap.read() reports for it
ExtractFrame(success) ==
    /\ pc = "extract"
    /\ Video.video
    /\ Pending # {}
    /\ LET frame == SetMin(Pending)
       IN  IF success
           THEN /\ imageFiles' = imageFiles \cup
                      {FileEntry(vi, offset, frame, Padding(files_dict))}
                /\ todo' = {f \in todo : f > frame}
                /\ UNCHANGED <<pc, decodeFailed>>
           ELSE /\ decodeFailed' = decodeFailed \cup {<<vi, frame>>}
                /\ pc' = "return"
                /\ UNCHANGED <<todo, imageFiles>>
    /\ UNCHANGED <<video_labels, err, labels, frame_count, vi, offset, availableFrames,
                   files_dict, si, ki, prev_seq, lines, labelFiles, classes>>

\* line 129 false, or the loop of line 132 runs out without another decode
ExtractDone ==
    /\ pc = "extract"
    /\ ~Video.video \/ Pending = {}
    /\ pc' = "return"
    /\ UNCHANGED <<video_labels, err, labels, frame_count, vi, offset, availableFrames,
                   files_dict, si, ki, prev_seq, lines, todo, labelFiles, imageFiles,
                   decodeFailed, classes>>

\* line 144 and line 186, and the call of main for the next video
Return ==
    /\ pc = "return"
    /\ LET total == Accumulate(frame_count, Returned(offset, files_dict))
       IN  /\ frame_count' = total
           /\ IF vi < Len(video_labels)
              THEN /\ pc' = "mask"
                   /\ EnterMain(vi + 1, total)
              ELSE /\ pc' = "classes"
                   /\ UNCHANGED <<vi, offset, availableFrames, files_dict, si, ki,
                                  prev_seq, lines, todo>>
    /\ UNCHANGED <<video_labels, err, labels, labelFiles, imageFiles, decodeFailed,
                   classes>>

\* lines 189-190
WriteClasses ==
    /\ pc = "classes"
    /\ classes' = <<labels>>
    /\ pc' = "done"
    /\ UNCHANGED <<video_labels, err, labels, frame_count, vi, offset, availableFrames,
                   files_dict, si, ki, prev_seq, lines, todo, labelFiles, imageFiles,
                   decodeFailed>>

Next ==
    \/ ExtractLabels
    \/ BuildMask
    \/ AggregateStep
    \/ WriteLabels
    \/ \E success \in BOOLEAN : ExtractFrame(success)
    \/ ExtractDone
    \/ Return
    \/ WriteClasses

(***************************************************************************)
(* The inputs of the runs explored.  Keyframes of a subject are strictly   *)
(* increasing in frame and every subject has at least one keyframe.        *)
(***************************************************************************)
MaxFrame == 4       \* keyframe frames of the single-subject inputs: 0..MaxFrame
MaxKeys == 2        \* keyframes per subject of the single-subject inputs
SmallFrame == 2     \* keyframe frames of the several-subject inputs
MaxTracks == 2      \* subjects per video
RunLast == 3        \* last keyframe frame of the several-video inputs
MaxVideos == 3      \* videos per run
MaxLabels == 2      \* labels per subject

\* percent boxes; BoxP normalises to (0.5, 0.5, 0.2, 0.2) and BoxC to
\* (0.9, 0.5, 0.25, 0.3)
BoxP == [x |-> DecInt(40), y |-> DecInt(40), width |-> DecInt(20), height |-> DecInt(20)]
BoxC == [x |-> Dec(FALSE, <<7, 7, 5>>, -1), y |-> DecInt(35),
         width |-> DecInt(25), height |-> DecInt(30)]
Boxes == {BoxP, BoxC}

Keyframe(frame, enabled, b) ==
    [frame |-> frame, enabled |-> enabled,
     x |-> b.x, y |-> b.y, width |-> b.width, height |-> b.height]

SeqsUpTo(S, n) == UNION {[1..k -> S] : k \in 1..n}

Increasing(s) == \A i \in 1..(Len(s) - 1) : s[i].frame < s[i + 1].frame

Sequences(frames, flags, boxes, n) ==
    {s \in SeqsUpTo({Keyframe(f, e, b) : f \in frames, e \in flags, b \in boxes}, n) :
        Increasing(s)}

SubjectRec(ls, fc, sq) == [labels |-> ls, framesCount |-> fc, sequence |-> sq]

\* one video with one subject: any keyframes
InputsTrack ==
    {<<[video |-> FALSE, box |-> <<SubjectRec(<<"refA">>, fc, sq)>>]>> :
        fc \in {<<>>, <<2>>, <<MaxFrame>>},
        sq \in Sequences(0..MaxFrame, BOOLEAN, Boxes, MaxKeys)}

\* one video with several subjects of two enabled keyframes each
PairTracks ==
    {SubjectRec(<<"ball">>, fc, <<Keyframe(s, TRUE, BoxP), Keyframe(e, TRUE, BoxC)>>) :
        fc \in {<<>>, <<SmallFrame>>},
        s \in 0..SmallFrame, e \in 1..SmallFrame}

InputsVideo ==
    {<<[video |-> file, box |-> b]>> :
        file \in BOOLEAN,
        b \in {t \in SeqsUpTo(PairTracks, MaxTracks) :
                  \A i \in 1..Len(t) : Increasing(t[i].sequence)}}

\* several videos of one subject each (or of none)
RunVideos ==
    {[video |-> file,
      box |-> <<SubjectRec(<<"teamB">>, <<RunLast>>,
                           <<Keyframe(s, TRUE, BoxP), Keyframe(RunLast, TRUE, BoxC)>>)>>] :
        file \in BOOLEAN, s \in {0, RunLast - 1}}
    \cup {[video |-> FALSE,
           box |-> <<SubjectRec(<<"ball">>, <<>>,
                                <<Keyframe(0, TRUE, BoxP), Keyframe(RunLast, TRUE, BoxC)>>)>>],
          [video |-> FALSE, box |-> <<>>]}

InputsRun == SeqsUpTo(RunVideos, MaxVideos)

\* subjects with any number of labels, in one video or two
LabelLists == {<<>>} \cup SeqsUpTo(Range(LabelNames), MaxLabels)

LabelTracks ==
    {SubjectRec(ls, <<1>>, <<Keyframe(0, TRUE, BoxP), Keyframe(1, TRUE, BoxP)>>) :
        ls \in LabelLists}

InputsLabels ==
    {<<[video |-> FALSE, box |-> b]>> : b \in SeqsUpTo(LabelTracks, 2)}
    \cup {<<[video |-> FALSE, box |-> <<s>>], [video |-> FALSE, box |-> <<t>>]>> :
             s \in LabelTracks, t \in LabelTracks}

Inputs == InputsTrack \cup InputsVideo \cup InputsRun \cup InputsLabels

\* line 183 (frame_count = 0) with nothing written yet
Init ==
    /\ video_labels \in Inputs
    /\ pc = "labels"
    /\ err = "none"
    /\ labels = <<>>
    /\ frame_count = 0
    /\ vi = 0
    /\ offset = 0
    /\ availableFrames = <<>>
    /\ files_dict = <<>>
    /\ si = 1
    /\ ki = 1
    /\ prev_seq = <<>>
    /\ lines = NoLines
    /\ todo = {}
    /\ labelFiles = {}
    /\ imageFiles = {}
    /\ decodeFailed = {}
    /\ classes = <<>>

Spec == Init /\ [][Next]_vars

(***************************************************************************)
(* Properties                                                              *)
(***************************************************************************)
Files == labelFiles \cup imageFiles

InMain == pc \in {"mask", "aggregate", "write", "extract", "return"}

LabelFrames(v) == {w.frame : w \in {x \in labelFiles : x.video = v}}
ImageFrames(v) == {w.frame : w \in {x \in imageFiles : x.video = v}}

\* string order of two file names (digit strings)
RECURSIVE LexLessAt(_, _, _)
LexLessAt(a, b, i) ==
    IF i > Len(a) THEN i <= Len(b)
    ELSE IF i > Len(b) THEN FALSE
    ELSE IF a[i] # b[i] THEN a[i] < b[i]
    ELSE LexLessAt(a, b, i + 1)

LexLess(a, b) == LexLessAt(a, b, 1)

\* C1: the global indices written for a later video are all greater than
\* those written for an earlier video, and no two videos write the same
\* frame_<index> file.
C1_NoCollisionBetweenVideos ==
    \A a \in Files : \A b \in Files :
        a.video < b.video => a.index < b.index /\ a.name # b.name

\* C2: the offset passed to a video is the number of label files written by
\* the videos before it, and the offset after the last video is the number
\* of label files written in the whole run.
C2_OffsetCountsExportedFrames ==
    /\ InMain => offset = Cardinality({w \in labelFiles : w.video < vi})
    /\ pc \in {"classes", "done"} => frame_count = Cardinality(labelFiles)

\* C4: every file of the run is named with offset + local_frame padded to
\* the number of digits of the largest global index of the run, so all names
\* have one width and their string order is their numeric order.
C4_NamesPaddedToRunWidth ==
    /\ \A a \in Files : \A b \in Files :
          /\ Len(a.name) = Len(b.name)
          /\ a.index < b.index <=> LexLess(a.name, b.name)
    /\ pc = "done" =>
          \A a \in Files :
             a.name = FormatPadded(a.index,
                                   Len(NatDigits(SetMax({w.index : w \in Files}))))

\* the keyframe the last AggregateStep of the current video processed (C), and
\* its predecessor in the subject's sequence (P), as the input gives them
StepDone == pc \in {"aggregate", "write"} /\ DOMAIN lines # {}
StepSi == IF ki > 1 THEN si ELSE si - 1
StepKi == IF ki > 1 THEN ki - 1 ELSE Len(Video.box[StepSi].sequence)
StepC == Video.box[StepSi].sequence[StepKi]
StepHasP == StepKi > 1
StepP == Video.box[StepSi].sequence[StepKi - 1]
StepGap == StepC.frame - StepP.frame
StepBetween == {f \in DOMAIN lines : StepP.frame < f /\ f < StepC.frame}
StepCalled == StepDone /\ StepHasP /\ StepP.enabled /\ StepGap > 1

\* |a| <= |b|
DecAbsLeq(a, b) ==
    LET e == Min2(a.exp, b.exp)
    IN  ~LessN(Strip(b.coef \o Zeros(b.exp - e)), Strip(a.coef \o Zeros(a.exp - e)))

BoxOf(k) == <<k.x, k.y, k.width, k.height>>

\* d * (value - (b0 + n/d * (b1 - b0))), computed without rounding
Deviation(value, b0, b1, n, d) ==
    AddX(MulX(DecInt(d), value),
         DecNeg(AddX(MulX(DecInt(d), b0), MulX(DecInt(n), AddX(b1, DecNeg(b0))))))

RECURSIVE Terminating(_)
Terminating(d) ==
    IF d % 2 = 0 THEN Terminating(d \div 2)
    ELSE IF d % 5 = 0 THEN Terminating(d \div 5)
    ELSE d = 1

StepDeviation(f, k) ==
    Deviation(lines[f][k + 1], BoxOf(Normalized(StepP))[k], BoxOf(Normalized(StepC))[k],
              f - StepP.frame, StepGap)

\* the label loop of the current video has run, or the run has died in it
LabelStageOver == vi >= 1 /\ pc \in {"extract", "return", "classes", "done", "error"}

\* the frames of the per-frame map, each with at least one line
FramesWithLines == {f \in DOMAIN files_dict : Len(files_dict[f]) >= 1}

\* C3: for one video, a label file is written for local frame f if and only
\* if f has at least one aggregated label line and f lies in [first keyframe,
\* last keyframe) of at least one track; no file of either kind is written
\* for a frame outside every range.
C3_LabelIffLinesAndInRange ==
    /\ LabelStageOver =>
          LabelFrames(vi) = FramesWithLines \cap Marked(Video)
    /\ ~LabelStageOver => vi = 0 \/ LabelFrames(vi) = {}
    /\ \A w \in Files : w.frame \in Marked(video_labels[w.video])

C3_Witness ==
    /\ pc = "return"
    /\ Len(Video.box) = 2
    /\ \E f \in FramesWithLines : f \notin Marked(Video)
    /\ \E f \in LabelFrames(vi) : f \in ImageFrames(vi) /\ f < FirstFrame(Video.box[2])

\* C5 as stated: one line per frame strictly between P.frame and C.frame and
\* for no other frame, each box value exactly the linear value.
C5_InterpolationExact ==
    StepCalled =>
        /\ DOMAIN lines \ {StepC.frame} = (StepP.frame + 1)..(StepC.frame - 1)
        /\ \A f \in StepBetween : \A k \in 1..4 : IsZeroN(StepDeviation(f, k).coef)

\* C5 as amended: one line per frame strictly between P.frame and C.frame
\* and for no other frame; each box value is the linear value when the gap
\* C.frame - P.frame has no prime factor but 2 and 5, and is within 10^-27 of
\* it for every gap.
C5_InterpolationWithinPrecision ==
    StepCalled =>
        /\ DOMAIN lines \ {StepC.frame} = (StepP.frame + 1)..(StepC.frame - 1)
        /\ \A f \in StepBetween : \A k \in 1..4 :
              /\ lines[f][1] = LabelIndex(labels, Video.box[StepSi].labels[1])
              /\ Terminating(StepGap) => IsZeroN(StepDeviation(f, k).coef)
              /\ DecAbsLeq(StepDeviation(f, k), Dec(FALSE, NatDigits(StepGap), 0 - (Prec - 1)))

C5_Witness ==
    /\ StepCalled
    /\ StepGap = 3
    /\ \E f \in StepBetween : ~IsZeroN(StepDeviation(f, 1).coef)

\* C6: a keyframe step adds lines for the frames strictly between P and C
\* only if P.enabled and C.frame - P.frame > 1; when P is disabled, the
\* keyframes are adjacent or C is the first keyframe, the step contributes
\* exactly one line, the one for C.frame; the lines of the step are the last
\* entries of their frames in the per-frame map.
C6_InterpolationTrigger ==
    StepDone =>
        /\ StepC.frame \in DOMAIN lines
        /\ (StepHasP /\ StepBetween # {}) => (StepP.enabled /\ StepGap > 1)
        /\ (~StepHasP \/ ~StepP.enabled \/ StepGap = 1) => DOMAIN lines = {StepC.frame}
        /\ \A f \in DOMAIN lines :
              /\ f \in DOMAIN files_dict
              /\ files_dict[f][Len(files_dict[f])] = lines[f]

C6_Witness ==
    /\ StepDone
    /\ StepHasP
    /\ ~StepP.enabled
    /\ StepGap = 3
    /\ DOMAIN lines = {StepC.frame}

\* C7 as stated: interpolated entries for the gap are emitted only if
\* C.enabled is true.
C7_NoInterpolationIntoDisabled ==
    (StepDone /\ StepHasP /\ StepBetween # {}) => StepC.enabled

\* C7 as amended: C.enabled does not decide interpolation: with P.enabled
\* true and C.frame - P.frame > 1 every frame strictly between P and C gets
\* an interpolated entry also when C.enabled is false, and the line for C's
\* own frame is emitted in every case.
C7_InterpolationIgnoresCurrentEnabled ==
    StepDone =>
        /\ lines[StepC.frame] = <<LabelIndex(labels, Video.box[StepSi].labels[1])>>
                                \o BoxOf(Normalized(StepC))
        /\ (StepHasP /\ StepP.enabled /\ StepGap > 1 /\ ~StepC.enabled) =>
              StepBetween = (StepP.frame + 1)..(StepC.frame - 1)

C7_Witness ==
    /\ StepDone
    /\ StepHasP
    /\ StepP.enabled
    /\ ~StepC.enabled
    /\ StepGap > 1
    /\ StepBetween = (StepP.frame + 1)..(StepC.frame - 1)

\* the largest keyframe frame of the video
MaxObservedFrame(video) == SetMax({0} \cup {LastFrame(s) : s \in Subjects(video)})

Declared(video) == {s \in Subjects(video) : Len(s.framesCount) = 1}

\* C8: the mask is sized by the largest declared framesCount, or by the
\* largest keyframe frame when no track declares one, so marking
\* [first keyframe, last keyframe) of every track never fails.
C8_MaskCoversEveryRange ==
    /\ err # "IndexError@56"
    /\ pc \in {"aggregate", "write", "extract", "return"} =>
          /\ Marked(Video) \subseteq DOMAIN availableFrames
          /\ DOMAIN availableFrames =
                0..(IF Declared(Video) # {}
                    THEN SetMax({s.framesCount[1] : s \in Declared(Video)})
                    ELSE MaxObservedFrame(Video))

\* C9: a decode failure at frame f of a video ends the images of that video
\* (none for f or later, all available frames before f kept), keeps every
\* label file of the video, and is not an error of the run: the video
\* returns, and a run that reaches its end writes classes.txt.
C9_DecodeFailureStopsImagesOnly ==
    /\ \A d \in decodeFailed :
          /\ ImageFrames(d[1]) = {g \in LabelFrames(d[1]) : g < d[2]}
          /\ d[2] \in LabelFrames(d[1])
          /\ d[1] = vi =>
                /\ pc \in {"return", "classes", "done"}
                /\ LabelFrames(vi) = FramesWithLines \cap Marked(Video)
          /\ pc = "error" => d[1] < vi
          /\ pc = "done" => classes = <<labels>>
    /\ \A v \in 1..Len(video_labels) :
          (\A d \in decodeFailed : d[1] # v) /\ (v < vi \/ pc \in {"return", "classes", "done"})
             => ImageFrames(v) = IF video_labels[v].video THEN LabelFrames(v) ELSE {}

C9_Witness ==
    /\ pc = "done"
    /\ classes = <<labels>>
    /\ \E d \in decodeFailed :
          /\ \E g \in ImageFrames(d[1]) : g < d[2]
          /\ \E g \in LabelFrames(d[1]) : g > d[2]
          /\ LabelFrames(d[1] + 1) # {}

BadLabels == \E v \in Range(video_labels) : \E s \in Subjects(v) : Len(s.labels) # 1

\* C10: when a subject of any video has zero labels or more than one, the
\* run aborts with a fatal error before any video is processed: no file is
\* written, classes.txt included, and the run never completes.
C10_BadLabelCountAborts ==
    BadLabels =>
        /\ pc \in {"labels", "error"}
        /\ pc = "error" => err = "TypeError@178"
        /\ Files = {}
        /\ classes = <<>>

C10_Witness ==
    /\ pc = "error"
    /\ \E v \in Range(video_labels) : \E s \in Subjects(v) : Len(s.labels) = 0
    /\ \E v \in Range(video_labels) : \E s \in Subjects(v) : Len(s.labels) = 2

====
